---- MODULE Spec2Model ----
(***************************************************************************)
(* Model of the preflight MCP server: the envelope codec                   *)
(* (utils/envelope.js), the system service functions (system.service.js),  *)
(* the tool registration (tools/system.js, index.js) and the HTTP route    *)
(* of the developer guide (api/v1/system.route.js).                        *)
(*                                                                         *)
(* JavaScript values are tagged pairs <<tag, payload>>.  An object is      *)
(* <<"object", f>> with f a function from Keys to values, Absent marking a *)
(* key the object does not own.  A JSON text is modelled by the document   *)
(* a JSON parser reads back from it.                                       *)
(***************************************************************************)
EXTENDS Integers, Sequences, FiniteSets, TLC

\* ------------------------------------------------------------------ bounds
\* The clock counts hours since 1970-01-01T00:00Z; it runs from 1 to MaxClock.
MaxClock == 3

\* ------------------------------------------------------------- JS values
Undefined == <<"undefined", "">>
Null      == <<"null", "">>
Absent    == <<"absent", "">>
True      == <<"boolean", "true">>
False     == <<"boolean", "false">>
BigInt1   == <<"bigint", "1">>
\* Object.create(null): an object with no prototype, hence no toString.
NullProto == <<"nullproto", "">>
Str(s)    == <<"string", s>>
\* An Error instance carrying `message`.
Err(m)    == <<"Error", m>>

TypeOf(v)  == v[1]
IsString(v) == TypeOf(v) = "string"
IsObject(v) == TypeOf(v) = "object"

Keys == {"pong", "message", "dateTime", "date", "time", "timezone", "ts", "requestId"}

EmptyProps == [k \in Keys |-> Absent]
Obj(props) == <<"object", props>>
EmptyObj   == Obj(EmptyProps)
Props(o)   == o[2]

\* o.k, and the `{ k }` of a destructuring parameter: a missing key reads undefined.
Get(o, k) == IF Props(o)[k] = Absent THEN Undefined ELSE Props(o)[k]

\* a ?? b
Coalesce(a, b) == IF a = Undefined \/ a = Null THEN b ELSE a

\* A parameter default `p = d`: only undefined takes the default.
DefaultParam(p, d) == IF p = Undefined THEN d ELSE p

\* { ...m } contributes the own properties of an object and nothing for null/undefined.
SpreadProps(m) == IF IsObject(m) THEN Props(m) ELSE EmptyProps

\* ------------------------------------------------------------ JS builtins
Pad2(n) == IF n < 10 THEN "0" \o ToString(n) ELSE ToString(n)

\* new Date().toISOString() at clock hour `now` (now < 24).
toISOString(now) == "1970-01-01T" \o Pad2(now) \o ":00:00.000Z"

\* String(v) throws a TypeError when v cannot be converted to a primitive.
StringThrows(v) == TypeOf(v) = "nullproto"

\* String(v) where it returns.
String(v) ==
  CASE TypeOf(v) = "string"    -> v[2]
    [] TypeOf(v) = "undefined" -> "undefined"
    [] TypeOf(v) = "null"      -> "null"
    [] TypeOf(v) = "boolean"   -> v[2]
    [] TypeOf(v) = "bigint"    -> v[2]
    [] TypeOf(v) = "Error"     -> "Error: " \o v[2]
    [] OTHER                   -> "[object Object]"

\* JSON.stringify throws a TypeError on a BigInt, at the top or in a property.
JSONThrowsOn(v) ==
  \/ TypeOf(v) = "bigint"
  \/ IsObject(v) /\ \E k \in Keys : TypeOf(Props(v)[k]) = "bigint"

\* What JSON.stringify writes for a property value that is not an object with
\* properties: undefined is left out, an Error or a prototype-less empty object
\* has no enumerable property and is written {}.
JSONLeaf(v) ==
  CASE TypeOf(v) = "undefined" -> Absent
    [] TypeOf(v) = "Error"     -> EmptyObj
    [] TypeOf(v) = "nullproto" -> EmptyObj
    [] OTHER                   -> v

JSONValue(v) ==
  IF IsObject(v) THEN Obj([k \in Keys |-> JSONLeaf(Props(v)[k])]) ELSE JSONLeaf(v)

\* JSON.stringify(e, null, 2) of an envelope object, where it returns: the
\* document a client parses from the text.
JSONstringify(e) ==
  [ok    |-> JSONValue(e.ok),
   data  |-> JSONValue(e.data),
   meta  |-> JSONValue(e.meta),
   error |-> JSONValue(e.error)]

\* Stands for "no value" in the result of a call that threw.
None == <<"none", "">>
NoEnvelope == [ok |-> None, data |-> None, meta |-> None, error |-> None]

\* --------------------------------------------------- utils/envelope.js
\* meta: { ...meta, ts: new Date().toISOString() }, the spread and ts swapped.
metaWithTs_tsLast(meta, now) ==
  Obj([k \in Keys |->
        IF k = "ts" THEN Str(toISOString(now)) ELSE SpreadProps(meta)[k]])

\* meta: { ts: new Date().toISOString(), ...meta }
metaWithTs(meta, now) ==
  Obj([k \in Keys |->
        IF SpreadProps(meta)[k] # Absent THEN SpreadProps(meta)[k]
        ELSE IF k = "ts" THEN Str(toISOString(now))
        ELSE Absent])

\* The object literal envelope() hands to JSON.stringify.
envelopeObject(params, now) ==
  [ok    |-> params.ok,
   data  |-> params.data,
   meta  |-> metaWithTs(params.meta, now),
   error |-> params.error]

\* envelope({ ok, data, meta, error }): the MCP tool response whose single text
\* item is the serialized envelope; `outcome` says whether the call returned.
envelope(params, now) ==
  LET e == envelopeObject(params, now) IN
  IF JSONThrowsOn(e.data) \/ JSONThrowsOn(e.meta) \/ JSONThrowsOn(e.error)
  THEN [outcome |-> "threw", envelope |-> NoEnvelope, text |-> NoEnvelope]
  ELSE [outcome |-> "returned", envelope |-> e, text |-> JSONstringify(e)]

\* ok(data, meta = {}): `error` is not passed, so it destructures to undefined.
ok(data, meta, now) ==
  envelope([ok |-> True, data |-> data,
            meta |-> DefaultParam(meta, EmptyObj), error |-> Undefined], now)

\* error instanceof Error ? error.message : String(error)
errorMessage(error) ==
  IF TypeOf(error) = "Error" THEN Str(error[2]) ELSE Str(String(error))

\* fail(error, meta = {})
fail(error, meta, now) ==
  IF TypeOf(error) # "Error" /\ StringThrows(error)
  THEN [outcome |-> "threw", envelope |-> NoEnvelope, text |-> NoEnvelope]
  ELSE envelope([ok |-> False, data |-> Null,
                 meta |-> DefaultParam(meta, EmptyObj),
                 error |-> errorMessage(error)], now)

\* ------------------------------------------------- system.service.js
\* The zones the runtime's Intl knows, with their offset from UTC in hours.
KnownZones == {"UTC", "Asia/Manila"}
ZoneOffset(z) == IF z = "Asia/Manila" THEN 8 ELSE 0

\* new Intl.DateTimeFormat("en-CA", { timeZone: tz, ... }).formatToParts(now):
\* a RangeError for a zone the runtime does not know, else the parts.
IntlDateTimeFormat(tz, now) ==
  IF IsString(tz) /\ tz[2] \in KnownZones
  THEN LET local == now + ZoneOffset(tz[2]) IN
       [threw  |-> FALSE, error |-> None,
        year   |-> "1970", month |-> "01",
        day    |-> Pad2(1 + (local \div 24)),
        hour   |-> Pad2(local % 24), minute |-> "00", second |-> "00"]
  ELSE [threw  |-> TRUE,
        error  |-> Err("Invalid time zone specified: " \o String(tz)),
        year   |-> "", month |-> "", day |-> "",
        hour   |-> "", minute |-> "", second |-> ""]

\* What a handler call did: the error raised inside it (None when nothing was
\* raised) and the result of the wrapper it returned through.
Handled(raised, r) ==
  [raised |-> raised, outcome |-> r.outcome, envelope |-> r.envelope, text |-> r.text]

\* A call whose error left the handler: the promise rejects.
Rejected(raised) ==
  [raised |-> raised, outcome |-> "threw", envelope |-> NoEnvelope, text |-> NoEnvelope]

\* systemDateTime({ timezone }) without its try/catch.
systemDateTime_noCatch(args, now) ==
  LET tz    == Coalesce(Get(args, "timezone"), Str("UTC"))
      parts == IntlDateTimeFormat(tz, now)
      date  == parts.year \o "-" \o parts.month \o "-" \o parts.day
      time  == parts.hour \o ":" \o parts.minute \o ":" \o parts.second
  IN IF parts.threw
     THEN Rejected(parts.error)
     ELSE Handled(None,
            ok(Obj([k \in Keys |->
                     CASE k = "dateTime" -> Str(date \o "T" \o time)
                       [] k = "date"     -> Str(date)
                       [] k = "time"     -> Str(time)
                       [] k = "timezone" -> tz
                       [] OTHER          -> Absent]),
               Undefined, now))

\* systemDateTime({ timezone })
systemDateTime(args, now) ==
  LET tz    == Coalesce(Get(args, "timezone"), Str("UTC"))
      parts == IntlDateTimeFormat(tz, now)
      date  == parts.year \o "-" \o parts.month \o "-" \o parts.day
      time  == parts.hour \o ":" \o parts.minute \o ":" \o parts.second
  IN IF parts.threw
     THEN Handled(parts.error, fail(parts.error, Undefined, now))
     ELSE Handled(None,
            ok(Obj([k \in Keys |->
                     CASE k = "dateTime" -> Str(date \o "T" \o time)
                       [] k = "date"     -> Str(date)
                       [] k = "time"     -> Str(time)
                       [] k = "timezone" -> tz
                       [] OTHER          -> Absent]),
               Undefined, now))

\* systemPing({ message }) answering through fail instead of ok.
systemPing_wrapsFail(args, now) ==
  Handled(None, fail(Coalesce(Get(args, "message"), Null), Undefined, now))

\* systemPing({ message })
systemPing(args, now) ==
  Handled(None,
    ok(Obj([k \in Keys |->
             CASE k = "pong"    -> True
               [] k = "message" -> Coalesce(Get(args, "message"), Null)
               [] OTHER         -> Absent]),
       Undefined, now))

\* ------------------------------------------------------ tools/system.js
\* z.string().optional(): the values the declared shape accepts for a field.
StringValues == {Str("hi"), Str("UTC"), Str("Asia/Manila"), Str("Not/AZone")}
ZStringOptional == StringValues \cup {Undefined}

\* The parameter each tool declares.
ToolParam(name) == IF name = "system.ping" THEN "message" ELSE "timezone"

\* The argument object of a call: the declared field, left out when undefined.
Args(name, v) ==
  Obj([k \in Keys |-> IF k = ToolParam(name) /\ v # Undefined THEN v ELSE Absent])

\* The handler registered under `name`.
ToolHandler(name, args, now) ==
  IF name = "system.ping" THEN systemPing(args, now) ELSE systemDateTime(args, now)

\* registerSystemTools(server): ping(server); dateTime(server) -- the names
\* handed to server.tool, in order.
registerSystemTools == <<"system.ping", "system.dateTime">>

\* -------------------------------------------- api/v1/system.route.js
\* req.query.timezone ?? "Asia/Manila", the query parameter being ignored.
routeTimezone_ignoresQuery(query) == Str("Asia/Manila")

\* req.query.timezone ?? "Asia/Manila"
routeTimezone(query) == Coalesce(Get(query, "timezone"), Str("Asia/Manila"))

\* router.get("/datetime"): result = await systemDateTime({ timezone }); res.json(result)
routeDateTime(query, now) ==
  systemDateTime(Args("system.dateTime", routeTimezone(query)), now)

\* ------------------------------------------------------------- the state
VARIABLES
  pc,        \* "init" before main() has registered the tools, then "running"
  tools,     \* the names registered with the server, in registration order
  clock,     \* the current hour
  last,      \* the latest call of ok, fail or a registered tool, with its result
  httpLast   \* the latest GET /api/v1/system/datetime, with its result

vars == <<pc, tools, clock, last, httpLast>>

\* The inputs the calls are drawn from.
PingData == Obj([k \in Keys |-> CASE k = "pong" -> True [] k = "message" -> Null
                                  [] OTHER -> Absent])
DataValues  == {Undefined, Null, Str("hi"), PingData}
ErrorValues == {Err("boom"), Err(""), Str("oops"), Null, Undefined, EmptyObj, NullProto}
MetaObject(ts, requestId) ==
  Obj([k \in Keys |-> CASE k = "ts" -> ts [] k = "requestId" -> requestId
                        [] OTHER -> Absent])
MetaValues ==
  {Undefined, Null} \cup
  {MetaObject(ts, rid) : ts \in {Absent, Undefined, Str("custom")},
                         rid \in {Absent, Str("r1"), BigInt1}}

NoCall ==
  [op |-> "none", tool |-> "", input |-> None, meta |-> None, now |-> 0,
   raised |-> None, outcome |-> "none", envelope |-> NoEnvelope, text |-> NoEnvelope]

Call(op, tool, input, meta, now, r) ==
  [op |-> op, tool |-> tool, input |-> input, meta |-> meta, now |-> now,
   raised |-> r.raised, outcome |-> r.outcome, envelope |-> r.envelope, text |-> r.text]

Init ==
  /\ pc = "init"
  /\ tools = <<>>
  /\ clock = 1
  /\ last = NoCall
  /\ httpLast = NoCall

\* main(): registerAllTools(server), then server.connect(transport).
Main ==
  /\ pc = "init"
  /\ tools' = tools \o registerSystemTools
  /\ pc' = "running"
  /\ UNCHANGED <<clock, last, httpLast>>

\* Time passes.
Tick ==
  /\ clock < MaxClock
  /\ clock' = clock + 1
  /\ UNCHANGED <<pc, tools, last, httpLast>>

\* The server calls the handler of a registered tool with arguments of the
\* shape the tool declared.
CallTool ==
  /\ pc = "running"
  /\ \E i \in 1..Len(tools), v \in ZStringOptional :
       LET args == Args(tools[i], v) IN
       last' = Call("tool", tools[i], args, Undefined, clock,
                    ToolHandler(tools[i], args, clock))
  /\ UNCHANGED <<pc, tools, clock, httpLast>>

\* GET /api/v1/system/datetime[?timezone=...]
HttpDateTime ==
  /\ \E v \in ZStringOptional :
       LET query == Args("system.dateTime", v) IN
       httpLast' = Call("http", "system.dateTime", query, Undefined, clock,
                        routeDateTime(query, clock))
  /\ UNCHANGED <<pc, tools, clock, last>>

\* A caller wraps a result: ok(data, meta).
CallOk ==
  /\ \E data \in DataValues, meta \in MetaValues :
       last' = Call("ok", "", data, meta, clock, Handled(None, ok(data, meta, clock)))
  /\ UNCHANGED <<pc, tools, clock, httpLast>>

\* A caller wraps an error: fail(error, meta).
CallFail ==
  /\ \E error \in ErrorValues, meta \in MetaValues :
       last' = Call("fail", "", error, meta, clock,
                    Handled(None, fail(error, meta, clock)))
  /\ UNCHANGED <<pc, tools, clock, httpLast>>

\* The server and the HTTP route at work.
Next == Main \/ Tick \/ CallTool \/ HttpDateTime

Spec == Init /\ [][Next]_vars

\* The envelope codec called on its own, on every input of the sets above.
CodecNext == Tick \/ CallOk \/ CallFail

CodecSpec == Init /\ [][CodecNext]_vars

\* ------------------------------------------------------------ the claims
\* The own properties the caller's meta supplies (none for a missing or null meta).
CallerMeta(c) == IF TypeOf(c.meta) = "object" THEN c.meta[2] ELSE [k \in Keys |-> Absent]

Returned(c) == c.outcome = "returned"
IsCodecCall(c) == c.op \in {"ok", "fail"}
IsToolCall(c) == c.op = "tool"
TimezoneOf(c) == IF c.input[2]["timezone"] = Absent THEN Undefined ELSE c.input[2]["timezone"]

\* C1 (as stated): every envelope produced by ok or fail satisfies exactly one of
\* (ok=true and error=null) or (ok=false, data=null and error a non-null
\* message), and the serialized envelope of a success carries the key error with
\* the value null.
C1_EnvelopeInvariant ==
  (IsCodecCall(last) /\ Returned(last)) =>
    LET e == last.envelope
        success == e.ok = True /\ e.error = Null
        failure == e.ok = False /\ e.data = Null /\ TypeOf(e.error) = "string"
    IN /\ success \/ failure
       /\ ~(success /\ failure)
       /\ (e.ok = True => last.text.error = Null)

C5_RaisedBecomesFailure ==
  /\ IsToolCall(last) => Returned(last)
  /\ (IsToolCall(last) /\ last.raised # None) =>
       /\ last.text.ok = False
       /\ last.text.data = Null
       /\ last.text.error = Str(last.raised[2])

C5_Witness ==
  /\ IsToolCall(last)
  /\ last.tool = "system.dateTime"
  /\ TimezoneOf(last) = Str("Not/AZone")
  /\ last.raised = Err("Invalid time zone specified: Not/AZone")
  /\ Returned(last)

\* C8 (as stated): fail(error, meta) never throws, for any error and any meta,
\* and returns an envelope with ok=false, data=null and error equal to
\* error.message for an Error and to the stringification of error otherwise.
C8_FailNeverThrows ==
  (last.op = "fail") =>
    /\ Returned(last)
    /\ last.envelope.ok = False
    /\ last.envelope.data = Null
    /\ TypeOf(last.envelope.error) = "string"
    /\ (TypeOf(last.input) = "Error" => last.envelope.error[2] = last.input[2])
    /\ (TypeOf(last.input) = "string" => last.envelope.error = last.input)

====
